---- MODULE Spec2Model ----
(***************************************************************************)
(* mxtransform: a 2x2 matrix applied to every pixel of a raster image.     *)
(* One run of main (src/src/main.rs) is a straight pipeline: parse the     *)
(* arguments and load the image, build the matrix (optionally inverted),   *)
(* allocate and fill the output buffer, scatter every source pixel, report *)
(* the bounding box, save the image (src/src/images.rs).                   *)
(*                                                                         *)
(* Real numbers of the code (f32) are kept exactly, as a numerator over a  *)
(* positive denominator; a matrix of non-finite entries is a kind of its   *)
(* own.  isize is kept at the width of a 32-bit target.                    *)
(***************************************************************************)
EXTENDS Integers, Sequences, FiniteSets, TLC

\* ------------------------------------------------------------------ bounds
MaxSrc == 2      \* source images are 1..MaxSrc wide and high
MaxDim == 2      \* each component of --dims is in 0..MaxDim
MaxOff == 1      \* each component of --offset is in -MaxOff..MaxOff

\* ------------------------------------------------------- program constants
InChannels == 3                  \* images.rs: load_image, shape (height, width, 3)
OutChannels == 4                 \* main.rs: Array3::zeros((out_height, out_width, 4))
RgbChannels == 3                 \* images.rs: RgbImage, three bytes per pixel
IsizeMax == 2147483647           \* isize::MAX (32-bit target)
IsizeMin == -IsizeMax - 1        \* isize::MIN

None == << >>
Some(v) == << v >>
IsSome(o) == Len(o) = 1
Unwrap(o) == o[1]
\* Option::unwrap_or
unwrap_or(o, d) == IF IsSome(o) THEN o[1] ELSE d

\* ------------------------------------------------------------- the inputs
\* The matrices a run may be given, in the user's order (Xx, Xy, Yx, Yy).
Identity == <<1, 0, 0, 1>>
Scale2 == <<2, 0, 0, 2>>
Matrices ==
    { Identity, Scale2,
      <<0, 1, -1, 0>>,      \* quarter turn (its inverse is the turn back)
      <<-1, 0, 0, 1>>,      \* mirror in x
      <<1, 0, 0, -1>>,      \* mirror in y
      <<1, 1, 0, 1>>,       \* shear: Xy # Yx, so the reordering shows
      <<2, 2, -1, 2>>,      \* determinant 6: the inverse is not exact in f32
      <<1, 0, 0, 2>>,       \* determinant 2: the inverse has a half
      <<1, 1, 1, 1>>,       \* singular
      <<0, 0, 0, 0>> }      \* singular
Backgrounds == { <<0, 0, 0, 255>>, <<9, 8, 7, 6>> }
Offsets == { <<dx, dy>> : dx \in -MaxOff..MaxOff, dy \in -MaxOff..MaxOff }
Dims == { <<w, h>> : w \in 0..MaxDim, h \in 0..MaxDim }
ArgSets ==
    [ matrix : Matrices,
      offset : {None} \cup { Some(o) : o \in Offsets },
      inverse : BOOLEAN,
      dims : {None} \cup { Some(d) : d \in Dims },
      background : {None} \cup { Some(b) : b \in Backgrounds } ]

\* An image file as decoded to RGB (ImageReader::decode, into_rgb8): width, height,
\* the bytes per pixel and the raw bytes, row-major.
\* The input files hold byte i at place i, so that every byte of an image differs.
InputFile(w, h) ==
    [ width |-> w, height |-> h, channels |-> RgbChannels,
      raw |-> [ i \in 1..(RgbChannels * w * h) |-> i ] ]
InputFiles == { InputFile(w, h) : w \in 1..MaxSrc, h \in 1..MaxSrc }
NoFile == [ width |-> 0, height |-> 0, channels |-> 0, raw |-> << >> ]

\* ------------------------------------------------------------- images.rs
\* load_image: the decoded bytes as an array of shape (height, width, 3).
load_image(f) ==
    [ y \in 0..(f.height - 1) |->
        [ x \in 0..(f.width - 1) |->
            [ c \in 1..InChannels |-> f.raw[InChannels * (y * f.width + x) + c] ] ] ]

\* into_raw_vec of a standard-layout array: rows, then columns, then channels.
Flatten(a, h, w, ch) ==
    [ i \in 1..(h * w * ch) |->
        a[(i - 1) \div (w * ch)][((i - 1) % (w * ch)) \div ch][((i - 1) % ch) + 1] ]

\* RgbImage::from_raw(width, height, buffer): None when the buffer is too short
\* for width * height pixels of three bytes; a longer buffer is accepted.
from_raw(w, h, buf) ==
    IF Len(buf) < RgbChannels * w * h THEN None
    ELSE Some([ width |-> w, height |-> h, channels |-> RgbChannels,
                raw |-> SubSeq(buf, 1, RgbChannels * w * h) ])

\* save_image: flatten the array, wrap it as an RgbImage of the array's width and
\* height, write it.  The result is None when from_raw refuses the buffer.
save_image(a, h, w, ch) == from_raw(w, h, Flatten(a, h, w, ch))

\* ---------------------------------------------------------------- isize
\* a + b and a - b on isize: whether the exact result leaves the type, and the
\* wrapped result (what a build without overflow checks computes).
isize_add(a, b) ==
    IF b >= 0 /\ a > IsizeMax - b
    THEN [ overflow |-> TRUE, v |-> ((a - IsizeMax - 1) + b) + IsizeMin ]
    ELSE IF b < 0 /\ a < IsizeMin - b
    THEN [ overflow |-> TRUE, v |-> (((a - IsizeMin) + b) + IsizeMax) + 1 ]
    ELSE [ overflow |-> FALSE, v |-> a + b ]

isize_sub(a, b) ==
    IF b > 0 /\ a < IsizeMin + b
    THEN [ overflow |-> TRUE, v |-> (((a - IsizeMin) - b) + IsizeMax) + 1 ]
    ELSE IF b <= 0 /\ a > IsizeMax + b
    THEN [ overflow |-> TRUE, v |-> ((a - IsizeMax - 1) - b) + IsizeMin ]
    ELSE [ overflow |-> FALSE, v |-> a - b ]

\* isize::min, isize::max
isize_min_swapped(a, b) == IF a < b THEN b ELSE a
isize_min(a, b) == IF a < b THEN a ELSE b
isize_max(a, b) == IF a > b THEN a ELSE b

\* ------------------------------------------------------------ the matrix
\* A 2x2 matrix of f32, row-major: <<m00, m01, m10, m11>> over den, or a matrix
\* with no finite entry (NaN, +inf, -inf).  Of the latter only what its rows do to
\* a vector is kept: a row times a vector with a zero component is NaN (inf * 0
\* and NaN * 0 are NaN), and times a vector of two positive components it is NaN,
\* +inf or -inf whatever the components are; rows[i] is that value for row i.
NonFinite == { "nan", "+inf", "-inf" }
FiniteMatrix(num, den) == [ kind |-> "finite", num |-> num, den |-> den, rows |-> << "", "" >> ]
NonFiniteMatrix(r0, r1) == [ kind |-> "nonfinite", num |-> <<0, 0, 0, 0>>, den |-> 1, rows |-> << r0, r1 >> ]
UnsetMatrix == [ kind |-> "unset", num |-> <<0, 0, 0, 0>>, den |-> 1, rows |-> << "", "" >> ]

\* swapped_matrix: the user's (Xx, Xy, Yx, Yy) as rows [Xx, Yx] and [Xy, Yy].
swapped_matrix(m) == << m[1], m[3], m[2], m[4] >>

Det(n) == n[1] * n[4] - n[2] * n[3]

\* invert_matrix: faer's full_piv_lu().inverse(), as the set of matrices it may
\* return.  The function returns a matrix and has no error path: a zero pivot is
\* divided by, and the result of a singular matrix is some matrix of non-finite
\* entries.
invert_matrix(n) ==
    LET det == Det(n) IN
    IF det = 0 THEN { NonFiniteMatrix(r0, r1) : r0 \in NonFinite, r1 \in NonFinite }
    ELSE IF det > 0 THEN { FiniteMatrix(<< n[4], -n[2], -n[3], n[1] >>, det) }
    ELSE { FiniteMatrix(<< -n[4], n[2], n[3], -n[1] >>, -det) }

\* The matrix block of main: reorder, then invert when --inverse is given.
build_matrix(a) ==
    IF a.inverse THEN invert_matrix(swapped_matrix(a.matrix))
    ELSE { FiniteMatrix(swapped_matrix(a.matrix), 1) }

\* matrix.dot(pos): the numerators of the two components, over matrix.den.
dot(m, px, py) == << m.num[1] * px + m.num[2] * py, m.num[3] * px + m.num[4] * py >>

RECURSIVE IsPow2(_)
IsPow2(n) == n = 1 \/ (n > 1 /\ n % 2 = 0 /\ IsPow2(n \div 2))

\* f32::round: to the nearest integer, halves away from zero.
round(n, d) ==
    IF n >= 0 THEN (2 * n + d) \div (2 * d) ELSE -((2 * (-n) + d) \div (2 * d))

\* `transformed.round() as isize`, as the set of values the build can produce.  A
\* matrix over a power of two is exact in f32.  Over another denominator the f32
\* entries are rounded, which cannot move a value across a half except when the
\* exact value is a half: then either neighbour may come out.  NaN casts to 0 and
\* the infinities saturate.  i is the component (the matrix row), n its exact
\* numerator, (px, py) the vector.
round_as_isize(m, i, n, px, py) ==
    IF m.kind = "nonfinite"
    THEN IF px = 0 \/ py = 0 \/ m.rows[i] = "nan" THEN { 0 }
         ELSE IF m.rows[i] = "+inf" THEN { IsizeMax } ELSE { IsizeMin }
    ELSE IF ~IsPow2(m.den) /\ (2 * n) % (2 * m.den) = m.den
    THEN { n \div m.den, (n \div m.den) + 1 }
    ELSE { round(n, m.den) }

\* ------------------------------------------------------------ the output
\* ndarray's assign: the right side is broadcast to the shape of the left; a
\* length that is neither the left's nor 1 cannot be broadcast and panics
\* (the result is then None).
assign(dst, src) ==
    IF Len(src) = Len(dst) THEN Some(src)
    ELSE IF Len(src) = 1 THEN Some([ i \in 1..Len(dst) |-> src[1] ])
    ELSE None

\* Array3::<u8>::zeros((out_height, out_width, 4))
zeros(h, w, ch) == [ r \in 0..(h - 1) |-> [ c \in 0..(w - 1) |-> [ k \in 1..ch |-> 0 ] ] ]

\* The background loop that forgets the last column (for x in 0..out_width - 1).
filled_output_short(bg, h, w) ==
    [ r \in 0..(h - 1) |-> [ c \in 0..(w - 1) |->
        IF IsSome(bg) /\ c < w - 1 THEN Unwrap(assign([ k \in 1..OutChannels |-> 0 ], Unwrap(bg)))
        ELSE [ k \in 1..OutChannels |-> 0 ] ] ]

\* The output buffer after the background loop: zeros, and every cell assigned the
\* background when one is given.
filled_output(bg, h, w) ==
    IF IsSome(bg)
    THEN [ r \in 0..(h - 1) |-> [ c \in 0..(w - 1) |-> Unwrap(assign(zeros(h, w, OutChannels)[r][c], Unwrap(bg))) ] ]
    ELSE zeros(h, w, OutChannels)

\* out_width, out_height: --dims, a 0 standing for the source's dimension.
out_dim(requested, source) == IF requested = 0 THEN source ELSE requested

\* ----------------------------------------------------------------- state
VARIABLES
    args,          \* the parsed command line
    array,         \* the source image, (height, width, 3)
    height, width, \* array.dim()
    matrix,        \* the matrix in effect
    offset,        \* args.offset.unwrap_or([0, 0])
    out_width, out_height,
    output,        \* the output buffer, (out_height, out_width, 4)
    min_x, max_x, min_y, max_y,
    cut_off,
    y, x,          \* the pixel loop's position
    coords,        \* the (new_x, new_y) the loop has computed so far, in order
    pc,            \* "matrix", "alloc", "loop", "save", "done", "panic", "error"
    failure,       \* the message the run died with, "" while it lives
    file,          \* the output file, NoFile until it is written
    run,           \* 1 for the first run, 2 for a second run on the first's file
    first          \* the first run's arguments and source image

vars == << args, array, height, width, matrix, offset, out_width, out_height, output,
           min_x, max_x, min_y, max_y, cut_off, y, x, coords, pc, failure, file, run, first >>

\* What a run starts from: the arguments parsed and the image loaded (main, to
\* the matrix block).
Start(a, f) ==
    /\ args = a
    /\ array = load_image(f)
    /\ height = f.height
    /\ width = f.width
    /\ matrix = UnsetMatrix
    /\ offset = <<0, 0>>
    /\ out_width = 0
    /\ out_height = 0
    /\ output = << >>
    /\ min_x = 0 /\ max_x = 0 /\ min_y = 0 /\ max_y = 0
    /\ cut_off = FALSE
    /\ y = 0 /\ x = 0
    /\ coords = << >>
    /\ pc = "matrix"
    /\ failure = ""
    /\ file = NoFile

Init ==
    \E a \in ArgSets, f \in InputFiles :
        /\ Start(a, f)
        /\ run = 1
        /\ first = [ args |-> a, array |-> load_image(f), height |-> f.height, width |-> f.width ]

\* main, the matrix block: swapped_matrix, invert_matrix, print_matrix.
BuildMatrix ==
    /\ pc = "matrix"
    /\ matrix' \in build_matrix(args)
    /\ pc' = "alloc"
    /\ UNCHANGED << args, array, height, width, offset, out_width, out_height, output,
                    min_x, max_x, min_y, max_y, cut_off, y, x, coords, failure, file, run, first >>

\* main, from the offset to the start of the loop: the offset and output
\* dimensions resolved, the output buffer allocated and filled, the bounding box
\* and the flag initialised.
AllocOutput ==
    /\ pc = "alloc"
    /\ offset' = unwrap_or(args.offset, <<0, 0>>)
    /\ LET out_dims == unwrap_or(args.dims, << width, height >>) IN
        /\ out_width' = out_dim(out_dims[1], width)
        /\ out_height' = out_dim(out_dims[2], height)
    /\ output' = filled_output(args.background, out_height', out_width')
    /\ min_x' = IsizeMax /\ max_x' = IsizeMin
    /\ min_y' = IsizeMax /\ max_y' = IsizeMin
    /\ cut_off' = FALSE
    /\ y' = 0 /\ x' = 0
    /\ pc' = "loop"
    /\ UNCHANGED << args, array, height, width, matrix, coords, failure, file, run, first >>

\* One iteration of the pixel loop on source pixel (x, y), as a record of what it
\* leaves behind.  rx, ry are the rounded components the build produced and
\* checked says whether the build checks integer overflow (a debug build panics
\* where a release build wraps).
Iteration(rx, ry, checked) ==
    LET ax == isize_add(rx, offset[1])
        ay == isize_add(ry, offset[2])
        new_x == ax.v
        new_y == ay.v
        s1 == isize_sub(out_height, new_y)
        s2 == isize_sub(s1.v, 1)
        flipped == s2.v
        boxed == [ min_x |-> isize_min(min_x, new_x), max_x |-> isize_max(max_x, new_x),
                   min_y |-> isize_min(min_y, new_y), max_y |-> isize_max(max_y, new_y),
                   coords |-> Append(coords, << new_x, new_y >>) ]
        unboxed == [ min_x |-> min_x, max_x |-> max_x, min_y |-> min_y, max_y |-> max_y,
                     coords |-> coords ]
        inside == new_x >= 0 /\ new_x < out_width /\ flipped >= 0 /\ flipped < out_height
    IN
    IF checked /\ (ax.overflow \/ ay.overflow)
    THEN [ box |-> unboxed, output |-> output, cut_off |-> cut_off,
           failure |-> "attempt to add with overflow" ]
    ELSE IF checked /\ (s1.overflow \/ s2.overflow)
    THEN [ box |-> boxed, output |-> output, cut_off |-> cut_off,
           failure |-> "attempt to subtract with overflow" ]
    ELSE IF inside
    THEN LET written == assign(output[flipped][new_x], array[y][x]) IN
         IF IsSome(written)
         THEN [ box |-> boxed, output |-> [ output EXCEPT ![flipped][new_x] = Unwrap(written) ],
                cut_off |-> cut_off, failure |-> "" ]
         ELSE [ box |-> boxed, output |-> output, cut_off |-> cut_off,
                failure |-> "could not broadcast array" ]
    ELSE [ box |-> boxed, output |-> output, cut_off |-> TRUE, failure |-> "" ]

\* The pixel loop's body for the pixel at (x, y).
PixelStep ==
    /\ pc = "loop"
    /\ y < height
    /\ LET t == dot(matrix, x, height - y - 1) IN
       \E rx \in round_as_isize(matrix, 1, t[1], x, height - y - 1),
          ry \in round_as_isize(matrix, 2, t[2], x, height - y - 1),
          checked \in BOOLEAN :
          LET it == Iteration(rx, ry, checked) IN
          /\ min_x' = it.box.min_x /\ max_x' = it.box.max_x
          /\ min_y' = it.box.min_y /\ max_y' = it.box.max_y
          /\ coords' = it.box.coords
          /\ output' = it.output
          /\ cut_off' = it.cut_off
          /\ failure' = it.failure
          /\ pc' = IF it.failure = "" THEN "loop" ELSE "panic"
          /\ x' = IF it.failure # "" THEN x ELSE IF x + 1 < width THEN x + 1 ELSE 0
          /\ y' = IF it.failure # "" \/ x + 1 < width THEN y ELSE y + 1
    /\ UNCHANGED << args, array, height, width, matrix, offset, out_width, out_height,
                    file, run, first >>

\* After the loop: the progress bar finished, the bounding box and the warning
\* printed.
Report ==
    /\ pc = "loop"
    /\ y = height
    /\ pc' = "save"
    /\ UNCHANGED << args, array, height, width, matrix, offset, out_width, out_height, output,
                    min_x, max_x, min_y, max_y, cut_off, y, x, coords, failure, file, run, first >>

\* images::save_image(output, &args.output)?
SaveImage ==
    /\ pc = "save"
    /\ LET img == save_image(output, out_height, out_width, OutChannels) IN
       IF IsSome(img)
       THEN /\ file' = Unwrap(img)
            /\ pc' = "done"
            /\ failure' = ""
       ELSE /\ file' = file
            /\ pc' = "error"
            /\ failure' = "Failed to create image from array"
    /\ UNCHANGED << args, array, height, width, matrix, offset, out_width, out_height, output,
                    min_x, max_x, min_y, max_y, cut_off, y, x, coords, run, first >>

Next == BuildMatrix \/ AllocOutput \/ PixelStep \/ Report \/ SaveImage

Spec == Init /\ [][Next]_vars

\* A second run of the program on the file the first run wrote, to undo the first:
\* the same matrix with --inverse switched, the offset d answered by -(E . d) for
\* the second run's matrix E, and the first source's dimensions as --dims.
InverseArgs(a, w, h) ==
    LET e == build_matrix([ a EXCEPT !.inverse = ~a.inverse ])
        d == unwrap_or(a.offset, <<0, 0>>)
    IN { [ a EXCEPT !.inverse = ~a.inverse,
                    !.offset = Some(<< -(dot(m, d[1], d[2])[1] \div m.den),
                                       -(dot(m, d[1], d[2])[2] \div m.den) >>),
                    !.dims = Some(<< w, h >>) ] :
         m \in { k \in e : /\ k.kind = "finite"
                           /\ dot(k, d[1], d[2])[1] % k.den = 0
                           /\ dot(k, d[1], d[2])[2] % k.den = 0 } }

RunInverse ==
    /\ pc = "done"
    /\ run = 1
    /\ Det(swapped_matrix(args.matrix)) # 0
    /\ \E a \in InverseArgs(args, width, height) :
        /\ args' = a
        /\ array' = load_image(file)
        /\ height' = file.height
        /\ width' = file.width
    /\ matrix' = UnsetMatrix
    /\ offset' = <<0, 0>>
    /\ out_width' = 0 /\ out_height' = 0
    /\ output' = << >>
    /\ min_x' = 0 /\ max_x' = 0 /\ min_y' = 0 /\ max_y' = 0
    /\ cut_off' = FALSE
    /\ y' = 0 /\ x' = 0
    /\ coords' = << >>
    /\ pc' = "matrix"
    /\ failure' = ""
    /\ run' = 2
    /\ UNCHANGED << file, first >>

NextRoundTrip == Next \/ RunInverse

SpecRoundTrip == Init /\ [][NextRoundTrip]_vars

\* ------------------------------------------------------------ properties
\* The loop has run to its end (the run is at or past the report).
AfterLoop == pc \in { "save", "done", "error" }
\* The matrix, the offset and the output buffer are in place.
Rasterizing == pc \in { "loop", "save", "done", "error", "panic" }

\* The source pixel the loop handles k-th, as << x, y >>.
PixelAt(k, w) == << (k - 1) % w, (k - 1) \div w >>
\* A computed (new_x, new_y) lies on the canvas; its raster row is RasterRow.
InCanvas(c) == c[1] >= 0 /\ c[1] < out_width /\ c[2] >= 0 /\ c[2] < out_height
RasterRow(c) == out_height - 1 - c[2]
\* The matrix in effect has entries f32 holds exactly.
Exact(m) == m.kind = "finite" /\ IsPow2(m.den)
\* Where an exact matrix m with offset d sends source pixel (px, py) of an image
\* h high: << new_x, new_y >> before the flip.
Lands(m, d, h, px, py) ==
    LET t == dot(m, px, h - py - 1)
    IN << round(t[1], m.den) + d[1], round(t[2], m.den) + d[2] >>
Rgb(cell) == SubSeq(cell, 1, 3)
SetMin(S) == CHOOSE v \in S : \A u \in S : v <= u
SetMax(S) == CHOOSE v \in S : \A u \in S : v >= u
ZeroOffset(a) == unwrap_or(a.offset, <<0, 0>>) = <<0, 0>>
BackgroundCell == IF IsSome(args.background) THEN Unwrap(args.background) ELSE <<0, 0, 0, 0>>

\* C1: with the matrix (1,0,0,1), no inversion, a zero offset and an output as
\* large as the source, the loop runs to its end and then every output cell
\* [y][x] holds the three channels of source cell [y][x] followed by the
\* background's alpha (0 without a background).
C1_IdentityCopiesSource ==
    ( /\ Rasterizing
      /\ args.matrix = Identity /\ ~args.inverse /\ ZeroOffset(args)
      /\ out_width = width /\ out_height = height )
    => /\ pc # "panic"
       /\ AfterLoop =>
            \A r \in 0..(height - 1), c \in 0..(width - 1) :
                output[r][c] = array[r][c] \o << BackgroundCell[4] >>

\* C2: once the loop has handled every pixel, min_x, max_x, min_y, max_y are
\* exactly the least and greatest new_x and (pre-flip) new_y over all source
\* pixels, clipped or not, and under an exact matrix the k-th of them is where
\* the matrix and offset send the k-th pixel in row-major order.
C2_BoundingBoxExact ==
    AfterLoop =>
        /\ Len(coords) = width * height
        /\ min_x = SetMin({ coords[k][1] : k \in 1..Len(coords) })
        /\ max_x = SetMax({ coords[k][1] : k \in 1..Len(coords) })
        /\ min_y = SetMin({ coords[k][2] : k \in 1..Len(coords) })
        /\ max_y = SetMax({ coords[k][2] : k \in 1..Len(coords) })
        /\ Exact(matrix) =>
             \A k \in 1..Len(coords) :
                coords[k] = Lands(matrix, offset, height, PixelAt(k, width)[1], PixelAt(k, width)[2])
        /\ (width = 1 /\ height = 1) => (min_x = max_x /\ min_y = max_y)

\* C2's case: a finished loop over several pixels, all clipped, that differ in
\* both coordinates.
C2_Witness ==
    /\ AfterLoop /\ cut_off
    /\ width * height > 1
    /\ min_x < max_x /\ min_y < max_y

\* C3: with the matrix (2,0,0,2), a zero offset and no inversion, on a source of
\* which a pixel lands beyond the canvas (2(W-1) >= out_W or 2(H-1) >= out_H, the
\* sources larger than half the canvas for which that is so), the loop runs to
\* its end and leaves the cut-off flag true.
C3_ScaleTwoCutsOff ==
    ( /\ pc \in { "save", "done", "error", "panic" }
      /\ args.matrix = Scale2 /\ ~args.inverse /\ ZeroOffset(args)
      /\ (2 * (width - 1) >= out_width \/ 2 * (height - 1) >= out_height) )
    => (cut_off /\ pc # "panic")

\* C4: under --inverse with a singular matrix the run dies before the loop ends:
\* save_image is never reached and no output file is written.
C4_SingularInverseAborts ==
    (run = 1 /\ args.inverse /\ Det(swapped_matrix(args.matrix)) = 0)
    => (pc \notin { "save", "done" } /\ file = NoFile)

\* C5: after the loop every output cell onto which no source pixel was mapped
\* holds the four bytes of the background, and (0,0,0,0) without a background.
C5_BackgroundKept ==
    AfterLoop =>
        \A r \in 0..(out_height - 1), c \in 0..(out_width - 1) :
            (\A k \in 1..Len(coords) : ~(InCanvas(coords[k]) /\ coords[k][1] = c /\ RasterRow(coords[k]) = r))
            => output[r][c] = BackgroundCell

\* C5's case: a finished loop under the background (0,0,0,255) with a cell no
\* pixel was mapped onto, which holds (0,0,0,255).
C5_Witness ==
    /\ AfterLoop
    /\ args.background = Some(<<0, 0, 0, 255>>)
    /\ Len(coords) = width * height
    /\ \E r \in 0..(out_height - 1), c \in 0..(out_width - 1) :
        /\ \A k \in 1..Len(coords) : coords[k] # << c, out_height - 1 - r >>
        /\ output[r][c] = <<0, 0, 0, 255>>

\* The first run of a round trip: an invertible matrix that f32 holds exactly
\* together with its inverse, every source pixel landing on the canvas and no two
\* on the same cell, and an integer offset that undoes the first one.
RoundTripFirstRun ==
    LET a == first.args
        n == swapped_matrix(a.matrix)
        d == unwrap_or(a.offset, <<0, 0>>)
        od == unwrap_or(a.dims, << first.width, first.height >>)
        ow == out_dim(od[1], first.width)
        oh == out_dim(od[2], first.height)
        pixels == (0..(first.width - 1)) \X (0..(first.height - 1))
    IN /\ Det(n) # 0
       /\ IsPow2(IF Det(n) > 0 THEN Det(n) ELSE -Det(n))
       /\ InverseArgs(a, first.width, first.height) # {}
       /\ \A m \in build_matrix(a) :
            /\ \A p \in pixels :
                LET c == Lands(m, d, first.height, p[1], p[2])
                IN c[1] >= 0 /\ c[1] < ow /\ c[2] >= 0 /\ c[2] < oh
            /\ \A p \in pixels, q \in pixels :
                Lands(m, d, first.height, p[1], p[2]) = Lands(m, d, first.height, q[1], q[2])
                => p = q

\* C6: a run whose matrix is invertible and exact, with nothing cut off and no
\* collision, followed by a run on its result with the inverse matrix, the
\* answering offset and the original dimensions, neither of them failing, puts
\* the three channels of every original pixel (x, y) back at output cell [y][x].
C6_RoundTripRestores ==
    RoundTripFirstRun =>
        /\ pc \notin { "panic", "error" }
        /\ (run = 2 /\ AfterLoop) =>
            /\ out_width = first.width /\ out_height = first.height
            /\ \A r \in 0..(first.height - 1), c \in 0..(first.width - 1) :
                Rgb(output[r][c]) = first.array[r][c]

\* C7: the file save_image writes is an RGBA image of the output's width and
\* height in which pixel (x, y) carries the four channels of output[y][x].
C7_WriterKeepsRgba ==
    (run = 1 /\ pc = "done") =>
        /\ file.width = out_width /\ file.height = out_height
        /\ file.channels = OutChannels
        /\ Len(file.raw) = out_height * out_width * OutChannels
        /\ \A r \in 0..(out_height - 1), c \in 0..(out_width - 1), k \in 1..OutChannels :
            file.raw[OutChannels * (r * out_width + c) + k] = output[r][c][k]

\* C8: under an exact matrix, when two or more source pixels are sent to one cell
\* of the canvas, the loop runs to its end and that cell then holds the three
\* channels of the last of them in row-major order.
C8_LastCollidingPixelWins ==
    (Rasterizing /\ Exact(matrix)) =>
        \A cx \in 0..(out_width - 1), cy \in 0..(out_height - 1) :
            LET hit == { k \in 1..(width * height) :
                           Lands(matrix, offset, height, PixelAt(k, width)[1], PixelAt(k, width)[2])
                           = << cx, cy >> }
            IN Cardinality(hit) >= 2 =>
                /\ pc # "panic"
                /\ AfterLoop =>
                     Rgb(output[out_height - 1 - cy][cx])
                     = array[PixelAt(SetMax(hit), width)[2]][PixelAt(SetMax(hit), width)[1]]

\* C9: an iteration of the loop whose destination is on the canvas does not fail,
\* writes the pixel's three channels into channels 0..2 of output[new_y][new_x],
\* and leaves that cell's alpha and every other cell as they were.
C9_WriteCopiesThreeChannels ==
    [][ ( /\ pc = "loop" /\ y < height
          /\ Len(coords') = Len(coords) + 1
          /\ InCanvas(coords'[Len(coords')]) )
        => LET c == coords'[Len(coords')]
           IN /\ pc' = "loop"
              /\ failure' = ""
              /\ output' = [ output EXCEPT ![RasterRow(c)][c[1]] =
                                array[y][x] \o << output[RasterRow(c)][c[1]][4] >> ] ]_vars

\* C10: cutting off is a warning only.  After the loop the flag is true exactly when
\* some pixel's destination was off the canvas, and a run (under a finite matrix)
\* whose flag is true does not die: it handles every pixel and goes on to save_image.
C10_CutOffIsOnlyAWarning ==
    /\ AfterLoop =>
        /\ cut_off <=> (\E k \in 1..Len(coords) : ~InCanvas(coords[k]))
        /\ Len(coords) = width * height
    /\ (Rasterizing /\ matrix.kind = "finite" /\ cut_off) => pc # "panic"

====
